---- MODULE Spec2Model ----
(***************************************************************************)
(* Content service of simple-contents: the orchestration service           *)
(* (service/content_service.go) over the in-memory repository and the      *)
(* in-memory storage.  Every capability call is one atomic step (each      *)
(* runs under the capability's mutex); a service operation is the sequence *)
(* of its capability calls, and concurrent callers interleave between      *)
(* them.  Backend failures (I/O errors of a database or an object store)   *)
(* are inputs chosen at each capability call.  Spec has two concurrent     *)
(* callers; SerialSpec has one caller working alone and a wider range of   *)
(* inputs: list filters, page sizes, names that lead out of their          *)
(* directory, metadata maps without entries.                               *)
(* ExtSpec is the extended variant under two callers: records with a      *)
(* status, MarkContentAsUploaded and AssociateContent; the repository of   *)
(* associations and the inspection calls of the storage have no code in    *)
(* the source and are plain capabilities.                                  *)
(* UpdateSpec has two callers that create and update with a clock that    *)
(* lets two updates of one record be stamped; PageSpec has one caller that *)
(* lists by pages whose offset leaves the range of the machine integer.    *)
(***************************************************************************)
EXTENDS Integers, Sequences, FiniteSets, TLC

\* ------------------------------------------------------------------ bounds
\* number of identifiers uuid.New() hands out
MaxIds == 2
\* number of creates and updates that store a timestamp from time.Now()
MaxClock == 2
\* number of records the extended variant creates
MaxUploads == 1
\* number of timestamps stored where two updates follow a create
MaxUpdateClock == 3
\* width in bits of the machine integer (Go's int), scaled down from 64
IntBits == 8

Procs == {"p1", "p2"}
Ids == 1..MaxIds
\* uuid.Nil
NilID == 0
\* a nil *time.Time
NoTime == 0 - 1

\* ------------------------------------------------------------------ errors
NoErr == "nil"
ErrInvalidInput == "service.ErrInvalidInput"
ErrContentNotFound == "service.ErrContentNotFound"
RepoErrContentNotFound == "repository.ErrContentNotFound"
RepoErrBackend == "repository.backendError"
StorageErrContentNotFound == "memorystorage.ErrContentNotFound"
StorageErrBackend == "storage.backendError"
\* the run-time panic of a slice expression whose bounds are out of range
RuntimePanic == "panic: runtime error: slice bounds out of range"
\* repository.ErrNotFound, the answer of a lookup of an association
RepoErrNotFound == "repository.ErrNotFound"
\* Conflict: a duplicate association or other uniqueness violation
RepoErrConflict == "repository.ErrConflict"
\* the errors AssociateContent and MarkContentAsUploaded make with
\* fmt.Errorf
ErrAlreadyAssociated == "content is already associated with entity"
ErrCannotMark == "cannot mark content as uploaded"
\* fmt.Errorf("msg: %w", err)
Wrap(msg, err) == msg \o ": " \o err

\* ------------------------------------------------------------------ values
\* model.Metadata is a Go map: nil, or holding entries
NilMeta == [isNil |-> TRUE, kv |-> {}]
Meta1 == [isNil |-> FALSE, kv |-> {<<"k", "v1">>}]
\* model.Metadata{}: a map that is not nil and has no entry
EmptyMeta == [isNil |-> FALSE, kv |-> {}]

\* model.ContentStatus; NoStatus is the zero value of a record whose
\* Status was never set
NoStatus == ""
StatusCreated == "created"
StatusUploaded == "uploaded"
StatusDone == "done"
StatusError == "error"

\* a nil io.Reader
NilData == "<nil>"

\* names are slash-separated strings, kept as their sequence of segments
EmptyName == << >>
IdStr(id) == ToString(id)

\* a value as the machine integer holds it: two's complement, IntBits wide
WrapInt(n) ==
    LET m == 2 ^ IntBits
        r == n % m
    IN IF r >= m \div 2 THEN r - m ELSE r

Put(f, k, v) == [x \in DOMAIN f \cup {k} |-> IF x = k THEN v ELSE f[x]]
Remove(f, k) == [x \in DOMAIN f \ {k} |-> f[x]]

\* path.Clean on a relative path given as segments: ".." removes the
\* segment before it
RECURSIVE Clean(_, _)
Clean(done, rest) ==
    IF rest = << >> THEN done
    ELSE IF Head(rest) = ".." /\ done # << >> /\ done[Len(done)] # ".."
         THEN Clean(SubSeq(done, 1, Len(done) - 1), Tail(rest))
         ELSE Clean(Append(done, Head(rest)), Tail(rest))

\* path.Join(contentID.String(), input.Name)
StorageKey(id, name) == Clean(<< >>, <<IdStr(id)>> \o name)

\* ------------------------------------------------------------------ inputs
\* service.CreateContentInput: a valid input and one input per validation
\* rule that it breaks
CreateInputs ==
    { [name |-> <<"a">>, description |-> "d0", contentType |-> "text/plain",
       data |-> "x", size |-> 1, metadata |-> Meta1],
      [name |-> EmptyName, description |-> "", contentType |-> "text/plain",
       data |-> "x", size |-> 1, metadata |-> NilMeta],
      [name |-> <<"a">>, description |-> "", contentType |-> "",
       data |-> "x", size |-> 1, metadata |-> NilMeta],
      [name |-> <<"a">>, description |-> "", contentType |-> "text/plain",
       data |-> NilData, size |-> 1, metadata |-> NilMeta],
      [name |-> <<"a">>, description |-> "", contentType |-> "text/plain",
       data |-> "x", size |-> 0, metadata |-> NilMeta] }

\* service.UpdateContentInput without its ID: only a description, only a
\* name
UpdateFields ==
    { [name |-> EmptyName, description |-> "d1", metadata |-> NilMeta],
      [name |-> <<"n">>, description |-> "", metadata |-> NilMeta] }

\* model.ContentFilter; an optional (pointer) field is << >> when nil
NoFilter ==
    [contentType |-> "", minSize |-> << >>, maxSize |-> << >>,
     createdFrom |-> << >>, createdTo |-> << >>, metadata |-> {}]

\* service.ListContentInput: unfiltered; no page or the second page; no
\* page size or one record a page
ListFilters == {NoFilter}
ListPages == {0, 2}
ListPageSizes == {0, 1}

\* identifiers a caller may pass: uuid.Nil and the identifiers in use
CallerIds == {NilID} \cup Ids

\* expiry of GetContentURL, in hours
Expiries == {1, 2}

\* identifiers the callers of the extended variant pass
UploadIds == {NilID} \cup (1..MaxUploads)

\* the entities content is associated with
EntityIDs == {"e1"}

\* service.AssociateContentInput
AssociateInputs ==
    { [contentID |-> id, entityType |-> "order", entityID |-> e,
       associationMetadata |-> Meta1, associatedBy |-> "u1"] :
      id \in UploadIds, e \in EntityIDs }

\* the storagePath given to MarkContentAsUploaded
UploadPaths == {<<"uploads", "a">>}
\* what http.DetectContentType finds in the first bytes of the object
DetectedTypes == {"text/plain", "image/png"}
\* the size the storage reports for the object
UploadedSize == 3

\* inputs of the calls of one caller working alone
\* service.CreateContentInput: two valid inputs that differ in every
\* attribute a filter looks at; the name of the second leads out of the
\* directory of its own identifier into that of identifier 1
SerialCreateInputs ==
    { [name |-> <<"a">>, description |-> "d0", contentType |-> "text/plain",
       data |-> "x", size |-> 1, metadata |-> Meta1],
      [name |-> <<"..", IdStr(1), "a">>, description |-> "d0",
       contentType |-> "image/png", data |-> "y", size |-> 2,
       metadata |-> NilMeta] }

\* service.UpdateContentInput without its ID: only a description, only a
\* name, only a metadata map without entries
SerialUpdateFields ==
    UpdateFields \cup
    { [name |-> EmptyName, description |-> "", metadata |-> EmptyMeta] }

\* model.ContentFilter: none; content type and minimum size together (no
\* input has both; the second input has both); maximum size and earliest
\* creation time; latest creation time and a metadata entry
SerialListFilters ==
    { NoFilter,
      [NoFilter EXCEPT !.contentType = "text/plain", !.minSize = <<2>>],
      [NoFilter EXCEPT !.contentType = "image/png", !.minSize = <<2>>],
      [NoFilter EXCEPT !.maxSize = <<1>>, !.createdFrom = <<1>>],
      [NoFilter EXCEPT !.createdTo = <<0>>, !.metadata = {<<"k", "v1">>}] }

SerialListPages == {0, 1, 2, 3}
SerialListPageSizes == {0, 1, 2}

\* ------------------------------------------------------------------ state
VARIABLES
    contents,   \* MemoryRepository.contents: id -> record
    storage,    \* MemoryStorage.storage: key -> bytes
    now,        \* the wall clock: the value the next time.Now() returns
    nextID,     \* the next identifier uuid.New() returns
    pc,         \* per caller: the capability call it is about to make
    loc,        \* per caller: the locals of the operation in progress
    ret,        \* what the operation returning in this step gives its caller
    written,    \* history: <<id, key>> of the storage write completed by each
                \* create that is under way or has returned its record
    deletedOk,  \* history: ids for which DeleteContent returned nil
    assocs,     \* the associations the repository holds, in order of creation
    deleteFailed \* history: a storage.Delete of the service has failed

vars == <<contents, storage, now, nextID, pc, loc, ret, written, deletedOk, assocs, deleteFailed>>

Idle == [op |-> "none"]
NoResult == [op |-> "none"]

Init ==
    /\ contents = << >>
    /\ storage = << >>
    /\ now = 0
    /\ nextID = 1
    /\ pc = [p \in Procs |-> "idle"]
    /\ loc = [p \in Procs |-> Idle]
    /\ ret = NoResult
    /\ written = {}
    /\ deletedOk = {}
    /\ assocs = << >>
    /\ deleteFailed = FALSE

\* ------------------------------------------------- storage capability
\* MemoryStorage.Store; fail: reading the data (or the backend) fails
StorageStore(st, key, data, fail) ==
    IF fail
    THEN [err |-> StorageErrBackend, path |-> << >>, storage |-> st]
    ELSE [err |-> NoErr, path |-> key, storage |-> Put(st, key, data)]

\* MemoryStorage.Retrieve
StorageRetrieve(st, path) ==
    IF path \notin DOMAIN st
    THEN [err |-> StorageErrContentNotFound, data |-> NilData]
    ELSE [err |-> NoErr, data |-> st[path]]

\* a delete that reports success and removes nothing
StorageDeleteKeeps(st, path, fail) ==
    IF fail
    THEN [err |-> StorageErrBackend, storage |-> st]
    ELSE IF path \notin DOMAIN st
         THEN [err |-> StorageErrContentNotFound, storage |-> st]
         ELSE [err |-> NoErr, storage |-> st]

\* MemoryStorage.Delete; fail: the backend fails
StorageDelete(st, path, fail) ==
    IF fail
    THEN [err |-> StorageErrBackend, storage |-> st]
    ELSE IF path \notin DOMAIN st
         THEN [err |-> StorageErrContentNotFound, storage |-> st]
         ELSE [err |-> NoErr, storage |-> Remove(st, path)]

\* MemoryStorage.GetURL: "memory://" + path, whatever the expiry; fail: the
\* backend fails
StorageGetURL(st, path, expiry, fail) ==
    IF fail
    THEN [err |-> StorageErrBackend, url |-> ""]
    ELSE IF path \notin DOMAIN st
         THEN [err |-> StorageErrContentNotFound, url |-> ""]
         ELSE [err |-> NoErr, url |-> <<"memory://">> \o path]

\* ------------------------------------------------- repository capability
\* MemoryRepository.CreateContent; fail: the backend rejects the write
RepoCreate(c, content, t, fail) ==
    IF fail
    THEN [err |-> RepoErrBackend, contents |-> c, content |-> content]
    ELSE LET stamped == [content EXCEPT !.createdAt = t, !.updatedAt = t]
         IN [err |-> NoErr, contents |-> Put(c, stamped.id, stamped),
             content |-> stamped]

\* a lookup that forgets the DeletedAt check
RepoGetByIDIgnoresDeleted(c, id, fail) ==
    IF fail
    THEN [err |-> RepoErrBackend, content |-> << >>]
    ELSE IF id \notin DOMAIN c
         THEN [err |-> RepoErrContentNotFound, content |-> << >>]
         ELSE [err |-> NoErr, content |-> <<c[id]>>]

\* MemoryRepository.GetContentByID; a copy of the stored record
RepoGetByID(c, id, fail) ==
    IF fail
    THEN [err |-> RepoErrBackend, content |-> << >>]
    ELSE IF id \notin DOMAIN c \/ c[id].deletedAt # NoTime
         THEN [err |-> RepoErrContentNotFound, content |-> << >>]
         ELSE [err |-> NoErr, content |-> <<c[id]>>]

\* an update that writes without looking at DeletedAt
RepoUpdateUnchecked(c, content, t, fail) ==
    IF fail
    THEN [err |-> RepoErrBackend, contents |-> c, content |-> content]
    ELSE IF content.id \notin DOMAIN c
         THEN [err |-> RepoErrContentNotFound, contents |-> c, content |-> content]
         ELSE LET stamped == [content EXCEPT
                                 !.createdAt = c[content.id].createdAt,
                                 !.updatedAt = t]
              IN [err |-> NoErr, contents |-> Put(c, stamped.id, stamped),
                  content |-> stamped]

\* MemoryRepository.UpdateContent: the check and the write under one lock
RepoUpdate(c, content, t, fail) ==
    IF fail
    THEN [err |-> RepoErrBackend, contents |-> c, content |-> content]
    ELSE IF content.id \notin DOMAIN c \/ c[content.id].deletedAt # NoTime
         THEN [err |-> RepoErrContentNotFound, contents |-> c, content |-> content]
         ELSE LET stamped == [content EXCEPT
                                 !.createdAt = c[content.id].createdAt,
                                 !.updatedAt = t]
              IN [err |-> NoErr, contents |-> Put(c, stamped.id, stamped),
                  content |-> stamped]

\* MemoryRepository.DeleteContent: soft delete
RepoDelete(c, id, t, fail) ==
    IF fail
    THEN [err |-> RepoErrBackend, contents |-> c]
    ELSE IF id \notin DOMAIN c \/ c[id].deletedAt # NoTime
         THEN [err |-> RepoErrContentNotFound, contents |-> c]
         ELSE [err |-> NoErr, contents |-> [c EXCEPT ![id].deletedAt = t]]

\* the minimum size taken as an exclusive bound
MatchesExclusiveMin(content, f) ==
    /\ content.deletedAt = NoTime
    /\ (f.contentType # "" => content.contentType = f.contentType)
    /\ (f.minSize # << >> => content.size > f.minSize[1])
    /\ (f.maxSize # << >> => content.size <= f.maxSize[1])
    /\ (f.createdFrom # << >> => content.createdAt >= f.createdFrom[1])
    /\ (f.createdTo # << >> => content.createdAt <= f.createdTo[1])
    /\ \A e \in f.metadata : e \in content.metadata.kv

\* the filter conditions of MemoryRepository.ListContent on one record
Matches(content, f) ==
    /\ content.deletedAt = NoTime
    /\ (f.contentType # "" => content.contentType = f.contentType)
    /\ (f.minSize # << >> => content.size >= f.minSize[1])
    /\ (f.maxSize # << >> => content.size <= f.maxSize[1])
    /\ (f.createdFrom # << >> => content.createdAt >= f.createdFrom[1])
    /\ (f.createdTo # << >> => content.createdAt <= f.createdTo[1])
    /\ \A e \in f.metadata : e \in content.metadata.kv

\* the orders in which a range over a Go map may visit the keys in S
Orders(S) ==
    {o \in [1..Cardinality(S) -> S] : \A i, j \in DOMAIN o : i # j => o[i] # o[j]}

\* MemoryRepository.ListContent; order: the order the map was visited in
RepoList(c, f, offset, limit, order, fail) ==
    IF fail
    THEN [err |-> RepoErrBackend, items |-> << >>, totalCount |-> 0]
    ELSE LET filteredContents == [i \in DOMAIN order |-> c[order[i]]]
             totalCount == Len(filteredContents)
             sum == WrapInt(offset + limit)
             end == IF sum > totalCount THEN totalCount ELSE sum
         IN IF offset >= totalCount
            THEN [err |-> NoErr, items |-> << >>, totalCount |-> totalCount]
            ELSE IF offset < 0 \/ end < offset
                 THEN [err |-> RuntimePanic, items |-> << >>, totalCount |-> 0]
                 ELSE [err |-> NoErr,
                       items |-> SubSeq(filteredContents, offset + 1, end),
                       totalCount |-> totalCount]

\* time.Now() inside a create or an update that succeeded: the clock has
\* moved on when it is read next; a soft delete reads it where it stands
ClockWithin(err, max) ==
    IF err = NoErr
    THEN now < max /\ now' = now + 1
    ELSE now' = now

Clock(err) == ClockWithin(err, MaxClock)

\* one capability call: its name, the key or id it was given, its error
Call(name, arg, err) == [call |-> name, arg |-> arg, err |-> err]

\* every failure of the lookup reported as not found
TranslateGetErrAll(err) ==
    IF err # NoErr THEN ErrContentNotFound ELSE err

\* the service's translation of a failed repo.GetByID
TranslateGetErr(err) ==
    IF err = RepoErrContentNotFound THEN ErrContentNotFound ELSE err

\* ------------------------------------------------- ContentService.CreateContent
\* the size check left out of the validation
ValidCreateInputAnySize(in) ==
    ~(in.name = EmptyName \/ in.contentType = "" \/ in.data = NilData)

ValidCreateInput(in) ==
    ~(in.name = EmptyName \/ in.contentType = "" \/ in.data = NilData \/ in.size <= 0)

\* &model.Content{...} built from the input and the stored path
NewContent(id, in, path) ==
    [id |-> id, name |-> in.name, description |-> in.description,
     contentType |-> in.contentType, size |-> in.size, path |-> path,
     metadata |-> in.metadata, createdAt |-> NoTime, updatedAt |-> NoTime,
     deletedAt |-> NoTime, status |-> NoStatus]

\* the error check after storage.Store left out
StoreFailedIgnored(err) == FALSE

\* "if err != nil" after storage.Store
StoreFailed(err) == err # NoErr

\* the cleanup error returned in place of the repository error
CreateFailureResultCleanupErr(repoErr, cleanupErr) ==
    IF cleanupErr # NoErr THEN cleanupErr ELSE repoErr

\* what CreateContent returns once repo.Create has failed: the repository
\* error; the error of the compensating delete is dropped
CreateFailureResult(repoErr, cleanupErr) == repoErr

\* a generator that hands out the value it handed out before
NextUUIDRepeats(n) == n

\* uuid.New(): the generator moves on, no value is handed out twice
NextUUID(n) == n + 1

\* validation, uuid.New(), path.Join and storage.Store, for an input among
\* inputs
CreateContentWith(p, inputs) ==
    /\ pc[p] = "idle" /\ ret = NoResult
    /\ \E in \in inputs, fail \in BOOLEAN :
         IF ~ValidCreateInput(in)
         THEN /\ ret' = [op |-> "create", input |-> in,
                          err |-> ErrInvalidInput, calls |-> << >>]
              /\ UNCHANGED <<contents, storage, now, nextID, pc, loc, written, deletedOk, assocs, deleteFailed>>
         ELSE /\ nextID <= MaxIds
              /\ LET contentID == nextID
                     storageKey == StorageKey(contentID, in.name)
                     r == StorageStore(storage, storageKey, in.data, fail)
                     calls == <<Call("storage.Store", storageKey, r.err)>>
                 IN /\ nextID' = NextUUID(nextID)
                    /\ storage' = r.storage
                    /\ written' = IF r.err = NoErr
                                  THEN written \cup {<<contentID, r.path>>}
                                  ELSE written
                    /\ IF StoreFailed(r.err)
                       THEN /\ ret' = [op |-> "create", input |-> in,
                                        id |-> contentID, key |-> storageKey,
                                        err |-> r.err, calls |-> calls]
                            /\ UNCHANGED <<pc, loc>>
                       ELSE /\ pc' = [pc EXCEPT ![p] = "create_repo"]
                            /\ loc' = [loc EXCEPT ![p] =
                                         [op |-> "create", input |-> in, id |-> contentID,
                                          key |-> storageKey,
                                          content |-> NewContent(contentID, in, r.path),
                                          err |-> NoErr, calls |-> calls]]
                            /\ UNCHANGED ret
                    /\ UNCHANGED <<contents, now, deletedOk, assocs, deleteFailed>>

CreateContent(p) == CreateContentWith(p, CreateInputs)

\* repo.Create of the record
CreateRepo(p) ==
    /\ pc[p] = "create_repo" /\ ret = NoResult
    /\ \E fail \in BOOLEAN :
         LET r == RepoCreate(contents, loc[p].content, now, fail)
             calls == Append(loc[p].calls, Call("repo.Create", loc[p].id, r.err))
         IN /\ Clock(r.err)
            /\ contents' = r.contents
            /\ IF r.err # NoErr
               THEN /\ pc' = [pc EXCEPT ![p] = "create_cleanup"]
                    /\ loc' = [loc EXCEPT ![p].err = r.err, ![p].calls = calls]
                    /\ UNCHANGED ret
               ELSE /\ pc' = [pc EXCEPT ![p] = "idle"]
                    /\ loc' = [loc EXCEPT ![p] = Idle]
                    /\ ret' = [op |-> "create", input |-> loc[p].input,
                                id |-> loc[p].id, key |-> loc[p].key,
                                content |-> r.content, err |-> NoErr, calls |-> calls]
    /\ UNCHANGED <<storage, nextID, written, deletedOk, assocs, deleteFailed>>

\* the compensating storage.Delete, its error dropped; the repository
\* error is returned
CreateCleanup(p) ==
    /\ pc[p] = "create_cleanup" /\ ret = NoResult
    /\ \E fail \in BOOLEAN :
         LET d == StorageDelete(storage, loc[p].content.path, fail)
         IN /\ storage' = d.storage
            /\ deleteFailed' = (deleteFailed \/ d.err # NoErr)
            /\ ret' = [op |-> "create", input |-> loc[p].input,
                        id |-> loc[p].id, key |-> loc[p].key,
                        err |-> CreateFailureResult(loc[p].err, d.err),
                        calls |-> Append(loc[p].calls,
                                         Call("storage.Delete", loc[p].content.path, d.err))]
    /\ written' = written \ {<<loc[p].id, loc[p].content.path>>}
    /\ pc' = [pc EXCEPT ![p] = "idle"]
    /\ loc' = [loc EXCEPT ![p] = Idle]
    /\ UNCHANGED <<contents, now, nextID, deletedOk, assocs>>

\* ------------------------------------------------- ContentService.GetContent
\* a lookup that stamps the record it found with the time of the access
GetContentStampsAccess(p) ==
    /\ pc[p] = "idle" /\ ret = NoResult
    /\ \E id \in CallerIds, fail \in BOOLEAN :
         LET r == RepoGetByID(contents, id, fail)
         IN /\ ret' = [op |-> "get", id |-> id,
                        err |-> TranslateGetErr(r.err), content |-> r.content,
                        calls |-> <<Call("repo.GetByID", id, r.err)>>]
            /\ contents' = IF r.err = NoErr
                            THEN [contents EXCEPT ![id].updatedAt = now]
                            ELSE contents
    /\ UNCHANGED <<storage, now, nextID, pc, loc, written, deletedOk, assocs, deleteFailed>>

GetContent(p) ==
    /\ pc[p] = "idle" /\ ret = NoResult
    /\ \E id \in CallerIds, fail \in BOOLEAN :
         LET r == RepoGetByID(contents, id, fail)
         IN ret' = [op |-> "get", id |-> id,
                     err |-> TranslateGetErr(r.err), content |-> r.content,
                     calls |-> <<Call("repo.GetByID", id, r.err)>>]
    /\ UNCHANGED <<contents, storage, now, nextID, pc, loc, written, deletedOk, assocs, deleteFailed>>

\* ------------------------------------------------- ContentService.GetContentData
\* repo.GetByID of the record whose bytes are asked for
GetContentData(p) ==
    /\ pc[p] = "idle" /\ ret = NoResult
    /\ \E id \in CallerIds, fail \in BOOLEAN :
         LET r == RepoGetByID(contents, id, fail)
             calls == <<Call("repo.GetByID", id, r.err)>>
         IN IF r.err # NoErr
            THEN /\ ret' = [op |-> "data", id |-> id,
                             err |-> TranslateGetErr(r.err), calls |-> calls,
                             data |-> NilData, content |-> << >>]
                 /\ UNCHANGED <<pc, loc>>
            ELSE /\ pc' = [pc EXCEPT ![p] = "data_retrieve"]
                 /\ loc' = [loc EXCEPT ![p] =
                              [op |-> "data", id |-> id, content |-> r.content[1],
                               calls |-> calls]]
                 /\ UNCHANGED ret
    /\ UNCHANGED <<contents, storage, now, nextID, written, deletedOk, assocs, deleteFailed>>

\* a storage not-found reported as the service's own not-found
RetrieveErrResultNotFound(err) ==
    IF err = StorageErrContentNotFound THEN ErrContentNotFound ELSE err

\* what GetContentData returns once storage.Retrieve has failed:
\* "return nil, nil, err"
RetrieveErrResult(err) == err

\* storage.Retrieve of the record's path; fail: the backend fails
DataRetrieve(p) ==
    /\ pc[p] = "data_retrieve" /\ ret = NoResult
    /\ \E fail \in BOOLEAN :
         LET path == loc[p].content.path
             r == IF fail
                  THEN [err |-> StorageErrBackend, data |-> NilData]
                  ELSE StorageRetrieve(storage, path)
             calls == Append(loc[p].calls, Call("storage.Retrieve", path, r.err))
         IN ret' = IF r.err # NoErr
                   THEN [op |-> "data", id |-> loc[p].id,
                         err |-> RetrieveErrResult(r.err), calls |-> calls,
                         data |-> NilData, content |-> << >>]
                   ELSE [op |-> "data", id |-> loc[p].id, err |-> NoErr,
                         calls |-> calls, data |-> r.data,
                         content |-> <<loc[p].content>>]
    /\ pc' = [pc EXCEPT ![p] = "idle"]
    /\ loc' = [loc EXCEPT ![p] = Idle]
    /\ UNCHANGED <<contents, storage, now, nextID, written, deletedOk, assocs, deleteFailed>>

\* ------------------------------------------------- ContentService.GetContentURL
\* repo.GetByID of the record a URL is asked for; gone: the repository
\* holds no live record for the id when it is looked up
GetContentURL(p) ==
    /\ pc[p] = "idle" /\ ret = NoResult
    /\ \E id \in CallerIds, expiry \in Expiries, fail \in BOOLEAN :
         LET r == RepoGetByID(contents, id, fail)
             calls == <<Call("repo.GetByID", id, r.err)>>
             gone == id \notin DOMAIN contents \/ contents[id].deletedAt # NoTime
         IN IF r.err # NoErr
            THEN /\ ret' = [op |-> "url", id |-> id, expiry |-> expiry,
                             err |-> TranslateGetErr(r.err), calls |-> calls,
                             url |-> "", gone |-> gone]
                 /\ UNCHANGED <<pc, loc>>
            ELSE /\ pc' = [pc EXCEPT ![p] = "url_storage"]
                 /\ loc' = [loc EXCEPT ![p] =
                              [op |-> "url", id |-> id, expiry |-> expiry,
                               content |-> r.content[1], calls |-> calls,
                               gone |-> gone]]
                 /\ UNCHANGED ret
    /\ UNCHANGED <<contents, storage, now, nextID, written, deletedOk, assocs, deleteFailed>>

\* "return s.storage.GetURL(ctx, content.Path, expiry)"
URLStorage(p) ==
    /\ pc[p] = "url_storage" /\ ret = NoResult
    /\ \E fail \in BOOLEAN :
         LET path == loc[p].content.path
             r == StorageGetURL(storage, path, loc[p].expiry, fail)
         IN ret' = [op |-> "url", id |-> loc[p].id, expiry |-> loc[p].expiry,
                    err |-> r.err, url |-> r.url, gone |-> loc[p].gone,
                    calls |-> Append(loc[p].calls,
                                     Call("storage.GetURL",
                                          [path |-> path, expiry |-> loc[p].expiry],
                                          r.err))]
    /\ pc' = [pc EXCEPT ![p] = "idle"]
    /\ loc' = [loc EXCEPT ![p] = Idle]
    /\ UNCHANGED <<contents, storage, now, nextID, written, deletedOk, assocs, deleteFailed>>

\* ------------------------------------------------- ContentService.ListContent
\* the page size ListContent uses when none is given
DefaultPageSize == 20

\* "if input.Page <= 0 { input.Page = 1 }"
EffectivePage(inPage) == IF inPage <= 0 THEN 1 ELSE inPage

\* "if input.PageSize <= 0 { input.PageSize = 20 }"
EffectivePageSize(inPageSize) ==
    IF inPageSize <= 0 THEN DefaultPageSize ELSE inPageSize

\* an offset that counts the page asked for among those to skip
OffsetFromPage(page, pageSize) == page * pageSize

\* offset := (input.Page - 1) * input.PageSize, in machine integers
Offset(page, pageSize) == WrapInt((page - 1) * pageSize)

\* the division alone, the last, partly filled page not counted
TotalPagesFloor(totalCount, pageSize) == totalCount \div pageSize

\* totalPages := totalCount / input.PageSize, one more when there is a
\* remainder
TotalPages(totalCount, pageSize) ==
    (totalCount \div pageSize) + (IF totalCount % pageSize > 0 THEN 1 ELSE 0)

\* the defaults, the offset, repo.List and the page count, for a filter
\* among filters, a page among pages and a page size among pageSizes
ListContentWith(p, filters, pages, pageSizes) ==
    /\ pc[p] = "idle" /\ ret = NoResult
    /\ \E f \in filters, inPage \in pages, inPageSize \in pageSizes,
          fail \in BOOLEAN :
         LET page == EffectivePage(inPage)
             pageSize == EffectivePageSize(inPageSize)
             offset == Offset(page, pageSize)
             input == [page |-> inPage, pageSize |-> inPageSize]
         IN \E order \in Orders({id \in DOMAIN contents : Matches(contents[id], f)}) :
              LET r == RepoList(contents, f, offset, pageSize, order, fail)
                  calls == <<Call("repo.List",
                                  [offset |-> offset, limit |-> pageSize], r.err)>>
              IN ret' = IF r.err # NoErr
                        THEN [op |-> "list", filter |-> f, input |-> input,
                              err |-> r.err, calls |-> calls]
                        ELSE [op |-> "list", filter |-> f, input |-> input,
                              err |-> NoErr, calls |-> calls,
                              items |-> r.items, totalCount |-> r.totalCount,
                              page |-> page, pageSize |-> pageSize,
                              totalPages |-> TotalPages(r.totalCount, pageSize)]
    /\ UNCHANGED <<contents, storage, now, nextID, pc, loc, written, deletedOk, assocs, deleteFailed>>

ListContent(p) == ListContentWith(p, ListFilters, ListPages, ListPageSizes)

\* ------------------------------------------------- ContentService.UpdateContent
\* the name assigned whether or not one was supplied
ApplyUpdateOverwritesName(content, in) ==
    [content EXCEPT
        !.name = in.name,
        !.description = IF in.description # "" THEN in.description ELSE @,
        !.metadata = IF ~in.metadata.isNil THEN in.metadata ELSE @]

\* the path derived anew from a name that was supplied
ApplyUpdateMovesPath(content, in) ==
    [content EXCEPT
        !.name = IF in.name # EmptyName THEN in.name ELSE @,
        !.description = IF in.description # "" THEN in.description ELSE @,
        !.metadata = IF ~in.metadata.isNil THEN in.metadata ELSE @,
        !.path = IF in.name # EmptyName THEN StorageKey(content.id, in.name) ELSE @]

\* "Update fields if provided"
ApplyUpdate(content, in) ==
    [content EXCEPT
        !.name = IF in.name # EmptyName THEN in.name ELSE @,
        !.description = IF in.description # "" THEN in.description ELSE @,
        !.metadata = IF ~in.metadata.isNil THEN in.metadata ELSE @]

\* the nil-id check left out
NilIdentifierUnchecked(id) == FALSE

\* "if input.ID == uuid.Nil"
NilIdentifier(id) == id = NilID

\* the nil-id check, repo.GetByID and the field assignments, for the
\* fields among inputs
UpdateContentWith(p, inputs) ==
    /\ pc[p] = "idle" /\ ret = NoResult
    /\ \E id \in CallerIds, in \in inputs, fail \in BOOLEAN :
         IF NilIdentifier(id)
         THEN /\ ret' = [op |-> "update", id |-> id, input |-> in,
                          err |-> ErrInvalidInput, calls |-> << >>, gone |-> FALSE]
              /\ UNCHANGED <<pc, loc>>
         ELSE LET r == RepoGetByID(contents, id, fail)
                  calls == <<Call("repo.GetByID", id, r.err)>>
              IN IF r.err # NoErr
                 THEN /\ ret' = [op |-> "update", id |-> id, input |-> in,
                                  err |-> TranslateGetErr(r.err), calls |-> calls,
                                  gone |-> FALSE]
                      /\ UNCHANGED <<pc, loc>>
                 ELSE /\ pc' = [pc EXCEPT ![p] = "update_write"]
                      /\ loc' = [loc EXCEPT ![p] =
                                   [op |-> "update", id |-> id, input |-> in,
                                    read |-> r.content[1],
                                    content |-> ApplyUpdate(r.content[1], in),
                                    calls |-> calls]]
                      /\ UNCHANGED ret
    /\ UNCHANGED <<contents, storage, now, nextID, written, deletedOk, assocs, deleteFailed>>

UpdateContent(p) == UpdateContentWith(p, UpdateFields)

\* repo.Update of the modified copy; its error is returned as it is; the
\* clock stands below max when the write is stamped
UpdateWriteWithin(p, max) ==
    /\ pc[p] = "update_write" /\ ret = NoResult
    /\ \E fail \in BOOLEAN :
         LET r == RepoUpdate(contents, loc[p].content, now, fail)
             gone == loc[p].id \notin DOMAIN contents
                        \/ contents[loc[p].id].deletedAt # NoTime
         IN /\ ClockWithin(r.err, max)
            /\ contents' = r.contents
            /\ ret' = [op |-> "update", id |-> loc[p].id,
                        input |-> loc[p].input, read |-> loc[p].read,
                        content |-> r.content, err |-> r.err,
                        calls |-> Append(loc[p].calls, Call("repo.Update", loc[p].id, r.err)),
                        gone |-> gone]
    /\ pc' = [pc EXCEPT ![p] = "idle"]
    /\ loc' = [loc EXCEPT ![p] = Idle]
    /\ UNCHANGED <<storage, nextID, written, deletedOk, assocs, deleteFailed>>

UpdateWrite(p) == UpdateWriteWithin(p, MaxClock)

\* ------------------------------------------------- ContentService.DeleteContent
\* the storage error handed to the caller
DeleteResultStorageErr(storageErr) == storageErr

\* what DeleteContent returns after the storage delete: "We don't return
\* storage deletion errors to the caller"
DeleteResult(storageErr) == NoErr

\* repo.GetByID of the record to delete
DeleteContent(p) ==
    /\ pc[p] = "idle" /\ ret = NoResult
    /\ \E id \in CallerIds, fail \in BOOLEAN :
         LET r == RepoGetByID(contents, id, fail)
             calls == <<Call("repo.GetByID", id, r.err)>>
         IN IF r.err # NoErr
            THEN /\ ret' = [op |-> "delete", id |-> id,
                             err |-> TranslateGetErr(r.err), calls |-> calls,
                             gone |-> FALSE]
                 /\ UNCHANGED <<pc, loc>>
            ELSE /\ pc' = [pc EXCEPT ![p] = "delete_repo"]
                 /\ loc' = [loc EXCEPT ![p] =
                              [op |-> "delete", id |-> id, content |-> r.content[1],
                               calls |-> calls]]
                 /\ UNCHANGED ret
    /\ UNCHANGED <<contents, storage, now, nextID, written, deletedOk, assocs, deleteFailed>>

\* the error check after repo.Delete left out
RepoDeleteFailedIgnored(err) == FALSE

\* "if err := s.repo.Delete(ctx, id); err != nil"
RepoDeleteFailed(err) == err # NoErr

\* "Delete from repository first"; its error is returned as it is
DeleteRepo(p) ==
    /\ pc[p] = "delete_repo" /\ ret = NoResult
    /\ \E fail \in BOOLEAN :
         LET r == RepoDelete(contents, loc[p].id, now, fail)
             calls == Append(loc[p].calls, Call("repo.Delete", loc[p].id, r.err))
             gone == loc[p].id \notin DOMAIN contents
                        \/ contents[loc[p].id].deletedAt # NoTime
         IN /\ contents' = r.contents
            /\ IF RepoDeleteFailed(r.err)
               THEN /\ ret' = [op |-> "delete", id |-> loc[p].id,
                                err |-> r.err, calls |-> calls, gone |-> gone]
                    /\ pc' = [pc EXCEPT ![p] = "idle"]
                    /\ loc' = [loc EXCEPT ![p] = Idle]
               ELSE /\ pc' = [pc EXCEPT ![p] = "delete_storage"]
                    /\ loc' = [loc EXCEPT ![p].calls = calls]
                    /\ UNCHANGED ret
    /\ UNCHANGED <<storage, now, nextID, written, deletedOk, assocs, deleteFailed>>

\* "Then delete from storage", its error dropped; nil is returned
DeleteStorage(p) ==
    /\ pc[p] = "delete_storage" /\ ret = NoResult
    /\ \E fail \in BOOLEAN :
         LET d == StorageDelete(storage, loc[p].content.path, fail)
         IN /\ storage' = d.storage
            /\ deleteFailed' = (deleteFailed \/ d.err # NoErr)
            /\ ret' = [op |-> "delete", id |-> loc[p].id, err |-> DeleteResult(d.err),
                        calls |-> Append(loc[p].calls,
                                         Call("storage.Delete", loc[p].content.path, d.err)),
                        gone |-> FALSE]
            /\ deletedOk' = IF DeleteResult(d.err) = NoErr
                            THEN deletedOk \cup {loc[p].id}
                            ELSE deletedOk
    /\ pc' = [pc EXCEPT ![p] = "idle"]
    /\ loc' = [loc EXCEPT ![p] = Idle]
    /\ UNCHANGED <<contents, now, nextID, written, assocs>>

\* the caller takes the returned values
Return ==
    /\ ret # NoResult
    /\ ret' = NoResult
    /\ UNCHANGED <<contents, storage, now, nextID, pc, loc, written, deletedOk, assocs, deleteFailed>>

\* a capability call is made once the value returned before it is taken
Next ==
    \/ Return
    \/ \E p \in Procs :
         \/ CreateContent(p) \/ CreateRepo(p) \/ CreateCleanup(p)
         \/ GetContent(p) \/ ListContent(p)
         \/ UpdateContent(p) \/ UpdateWrite(p)
         \/ DeleteContent(p) \/ DeleteRepo(p) \/ DeleteStorage(p)

Spec == Init /\ [][Next]_vars

\* ------------------------------------------------- extended variant
\* the association and status operations of the repository and the object
\* inspection of the storage have no implementation in the source; they
\* are taken as plain capabilities: a lookup by link, a create that
\* appends, a status write, and two storage reads that answer or fail

\* ContentRepository.GetAssociationByLink
RepoGetAssociationByLink(a, contentID, entityType, entityID, fail) ==
    IF fail
    THEN [err |-> RepoErrBackend, assoc |-> << >>]
    ELSE LET found == {i \in DOMAIN a : /\ a[i].contentID = contentID
                                        /\ a[i].entityType = entityType
                                        /\ a[i].entityID = entityID}
         IN IF found = {}
            THEN [err |-> RepoErrNotFound, assoc |-> << >>]
            ELSE [err |-> NoErr,
                  assoc |-> <<a[CHOOSE i \in found : \A j \in found : i <= j]>>]

\* the link of two associations: content id, entity type, entity id
SameLink(x, y) ==
    /\ x.contentID = y.contentID
    /\ x.entityType = y.entityType
    /\ x.entityID = y.entityID

\* a repository without the uniqueness constraint
DuplicateLinkUnchecked(a, association) == FALSE

\* the uniqueness constraint on (content id, entity type, entity id)
DuplicateLink(a, association) ==
    \E i \in DOMAIN a : SameLink(a[i], association)

\* ContentRepository.CreateAssociation
RepoCreateAssociation(a, association, fail) ==
    IF fail
    THEN [err |-> RepoErrBackend, assocs |-> a]
    ELSE IF DuplicateLink(a, association)
         THEN [err |-> RepoErrConflict, assocs |-> a]
         ELSE [err |-> NoErr, assocs |-> Append(a, association)]

\* ContentRepository.UpdateStatus
RepoUpdateStatus(c, id, status, fail) ==
    IF fail
    THEN [err |-> RepoErrBackend, contents |-> c]
    ELSE IF id \notin DOMAIN c \/ c[id].deletedAt # NoTime
         THEN [err |-> RepoErrContentNotFound, contents |-> c]
         ELSE [err |-> NoErr, contents |-> [c EXCEPT ![id].status = status]]

\* StorageService.DownloadRange of the first 512 bytes
StorageDownloadRange(path, header, fail) ==
    IF fail
    THEN [err |-> StorageErrBackend, header |-> ""]
    ELSE [err |-> NoErr, header |-> header]

\* StorageService.StatObject
StorageStatObject(path, fail) ==
    IF fail
    THEN [err |-> StorageErrBackend, size |-> 0]
    ELSE [err |-> NoErr, size |-> UploadedSize]

\* the creation of the extended variant: a record with status created,
\* its bytes yet to be uploaded by the client
CreateUpload(p) ==
    /\ pc[p] = "idle" /\ ret = NoResult
    /\ nextID <= MaxUploads
    /\ \E fail \in BOOLEAN :
         LET in == [name |-> <<"a">>, description |-> "", contentType |-> "text/plain",
                    size |-> 1, metadata |-> NilMeta]
             content == [NewContent(nextID, in, << >>) EXCEPT !.status = StatusCreated]
             r == RepoCreate(contents, content, now, fail)
         IN /\ Clock(r.err)
            /\ contents' = r.contents
            /\ ret' = [op |-> "createUpload", id |-> nextID, err |-> r.err,
                        calls |-> <<Call("repo.Create", nextID, r.err)>>]
    /\ nextID' = NextUUID(nextID)
    /\ UNCHANGED <<storage, pc, loc, written, deletedOk, assocs, deleteFailed>>

\* ------------------------------------------------- ContentService.AssociateContent
\* "1. Validate that the content item exists"
AssociateContent(p) ==
    /\ pc[p] = "idle" /\ ret = NoResult
    /\ \E in \in AssociateInputs, fail \in BOOLEAN :
         LET r == RepoGetByID(contents, in.contentID, fail)
             calls == <<Call("repo.GetContentByID", in.contentID, r.err)>>
         IN IF r.err # NoErr
            THEN /\ ret' = [op |-> "associate", input |-> in,
                             err |-> Wrap("content not found", r.err),
                             calls |-> calls, association |-> << >>]
                 /\ UNCHANGED <<pc, loc>>
            ELSE /\ pc' = [pc EXCEPT ![p] = "assoc_check"]
                 /\ loc' = [loc EXCEPT ![p] =
                              [op |-> "associate", input |-> in, calls |-> calls]]
                 /\ UNCHANGED ret
    /\ UNCHANGED <<contents, storage, now, nextID, written, deletedOk, assocs, deleteFailed>>

\* the association found taken for none
AlreadyAssociatedIgnored(existingAssoc) == FALSE

\* "if existingAssoc != nil"
AlreadyAssociated(existingAssoc) == existingAssoc # << >>

\* uuid.NewString(): an identifier no stored association has
NewAssociationID(p, a) == <<p, Len(a)>>

\* "3. Check for existing association" and the association built (its
\* two timestamps are left out: no operation here reads them)
AssocCheck(p) ==
    /\ pc[p] = "assoc_check" /\ ret = NoResult
    /\ \E fail \in BOOLEAN :
         LET in == loc[p].input
             r == RepoGetAssociationByLink(assocs, in.contentID, in.entityType,
                                           in.entityID, fail)
             calls == Append(loc[p].calls,
                             Call("repo.GetAssociationByLink", in.contentID, r.err))
             association == [id |-> NewAssociationID(p, assocs),
                             contentID |-> in.contentID,
                             entityType |-> in.entityType,
                             entityID |-> in.entityID,
                             associationMetadata |-> in.associationMetadata,
                             createdBy |-> in.associatedBy]
         IN IF r.err # NoErr /\ r.err # RepoErrNotFound
            THEN /\ ret' = [op |-> "associate", input |-> in,
                             err |-> Wrap("error checking for existing association", r.err),
                             calls |-> calls, association |-> << >>]
                 /\ pc' = [pc EXCEPT ![p] = "idle"]
                 /\ loc' = [loc EXCEPT ![p] = Idle]
            ELSE IF AlreadyAssociated(r.assoc)
                 THEN /\ ret' = [op |-> "associate", input |-> in,
                                  err |-> ErrAlreadyAssociated,
                                  calls |-> calls, association |-> << >>]
                      /\ pc' = [pc EXCEPT ![p] = "idle"]
                      /\ loc' = [loc EXCEPT ![p] = Idle]
                 ELSE /\ pc' = [pc EXCEPT ![p] = "assoc_create"]
                      /\ loc' = [loc EXCEPT ![p] =
                                   [op |-> "associate", input |-> in,
                                    calls |-> calls,
                                    association |-> association]]
                      /\ UNCHANGED ret
    /\ UNCHANGED <<contents, storage, now, nextID, written, deletedOk, assocs, deleteFailed>>

\* repo.CreateAssociation
AssocCreate(p) ==
    /\ pc[p] = "assoc_create" /\ ret = NoResult
    /\ \E fail \in BOOLEAN :
         LET r == RepoCreateAssociation(assocs, loc[p].association, fail)
             calls == Append(loc[p].calls,
                             Call("repo.CreateAssociation",
                                  loc[p].input.contentID, r.err))
         IN /\ assocs' = r.assocs
            /\ ret' = IF r.err # NoErr
                       THEN [op |-> "associate", input |-> loc[p].input,
                             err |-> Wrap("failed to create association", r.err),
                             calls |-> calls, association |-> << >>]
                       ELSE [op |-> "associate", input |-> loc[p].input,
                             err |-> NoErr, calls |-> calls,
                             association |-> <<loc[p].association>>]
    /\ pc' = [pc EXCEPT ![p] = "idle"]
    /\ loc' = [loc EXCEPT ![p] = Idle]
    /\ UNCHANGED <<contents, storage, now, nextID, written, deletedOk, deleteFailed>>

\* ------------------------------------------------- ContentService.MarkContentAsUploaded
\* "if content.Status != model.StatusCreated && content.Status !=
\* model.StatusError"
StatusRefused(status) == status # StatusCreated /\ status # StatusError

\* repo.GetByID and the status check
MarkContentAsUploaded(p) ==
    /\ pc[p] = "idle" /\ ret = NoResult
    /\ \E id \in UploadIds, storagePath \in UploadPaths, fail \in BOOLEAN :
         LET r == RepoGetByID(contents, id, fail)
             calls == <<Call("repo.GetByID", id, r.err)>>
         IN IF r.err # NoErr
            THEN /\ ret' = [op |-> "mark", id |-> id,
                             err |-> Wrap("content not found", r.err),
                             calls |-> calls, content |-> << >>]
                 /\ UNCHANGED <<pc, loc>>
            ELSE IF StatusRefused(r.content[1].status)
                 THEN /\ ret' = [op |-> "mark", id |-> id, err |-> ErrCannotMark,
                                  calls |-> calls, content |-> << >>]
                      /\ UNCHANGED <<pc, loc>>
                 ELSE /\ pc' = [pc EXCEPT ![p] = "mark_download"]
                      /\ loc' = [loc EXCEPT ![p] =
                                   [op |-> "mark", id |-> id,
                                    storagePath |-> storagePath,
                                    content |-> r.content[1], calls |-> calls]]
                      /\ UNCHANGED ret
    /\ UNCHANGED <<contents, storage, now, nextID, written, deletedOk, assocs, deleteFailed>>

\* storage.DownloadRange and http.DetectContentType; when the download
\* fails a warning is printed and the declared type is kept
MarkDownload(p) ==
    /\ pc[p] = "mark_download" /\ ret = NoResult
    /\ \E header \in DetectedTypes, fail \in BOOLEAN :
         LET r == StorageDownloadRange(loc[p].storagePath, header, fail)
             calls == Append(loc[p].calls,
                             Call("storage.DownloadRange", loc[p].storagePath, r.err))
             detectedMIMEType == IF r.err # NoErr
                                 THEN loc[p].content.contentType
                                 ELSE r.header
         IN loc' = [loc EXCEPT ![p].calls = calls,
                               ![p].content.contentType = detectedMIMEType]
    /\ pc' = [pc EXCEPT ![p] = "mark_stat"]
    /\ UNCHANGED <<contents, storage, now, nextID, ret, written, deletedOk, assocs, deleteFailed>>

\* storage.StatObject; the fields of the record set when it answers
MarkStat(p) ==
    /\ pc[p] = "mark_stat" /\ ret = NoResult
    /\ \E fail \in BOOLEAN :
         LET r == StorageStatObject(loc[p].storagePath, fail)
             calls == Append(loc[p].calls,
                             Call("storage.StatObject", loc[p].storagePath, r.err))
         IN IF r.err # NoErr
            THEN /\ pc' = [pc EXCEPT ![p] = "mark_status"]
                 /\ loc' = [loc EXCEPT ![p] =
                              [op |-> "mark", id |-> loc[p].id, calls |-> calls,
                               err |-> r.err]]
            ELSE /\ pc' = [pc EXCEPT ![p] = "mark_update"]
                 /\ loc' = [loc EXCEPT ![p].calls = calls,
                                        ![p].content.path = loc[p].storagePath,
                                        ![p].content.size = r.size,
                                        ![p].content.status = StatusUploaded]
    /\ UNCHANGED <<contents, storage, now, nextID, ret, written, deletedOk, assocs, deleteFailed>>

\* repo.UpdateStatus(StatusError) after a failed StatObject, its own error
\* not looked at; the StatObject error is returned
MarkStatus(p) ==
    /\ pc[p] = "mark_status" /\ ret = NoResult
    /\ \E fail \in BOOLEAN :
         LET r == RepoUpdateStatus(contents, loc[p].id, StatusError, fail)
         IN /\ contents' = r.contents
            /\ ret' = [op |-> "mark", id |-> loc[p].id,
                        err |-> Wrap("failed to get object metadata from storage",
                                     loc[p].err),
                        calls |-> Append(loc[p].calls,
                                         Call("repo.UpdateStatus", loc[p].id, r.err)),
                        content |-> << >>]
    /\ pc' = [pc EXCEPT ![p] = "idle"]
    /\ loc' = [loc EXCEPT ![p] = Idle]
    /\ UNCHANGED <<storage, now, nextID, written, deletedOk, assocs, deleteFailed>>

\* repo.Update of the record marked uploaded
MarkUpdate(p) ==
    /\ pc[p] = "mark_update" /\ ret = NoResult
    /\ \E fail \in BOOLEAN :
         LET r == RepoUpdate(contents, loc[p].content, now, fail)
             calls == Append(loc[p].calls, Call("repo.Update", loc[p].id, r.err))
         IN /\ Clock(r.err)
            /\ contents' = r.contents
            /\ ret' = IF r.err # NoErr
                       THEN [op |-> "mark", id |-> loc[p].id,
                             err |-> Wrap("failed to update content record", r.err),
                             calls |-> calls, content |-> << >>]
                       ELSE [op |-> "mark", id |-> loc[p].id, err |-> NoErr,
                             calls |-> calls, content |-> <<r.content>>]
    /\ pc' = [pc EXCEPT ![p] = "idle"]
    /\ loc' = [loc EXCEPT ![p] = Idle]
    /\ UNCHANGED <<storage, nextID, written, deletedOk, assocs, deleteFailed>>

\* the extended variant under concurrent callers
ExtNext ==
    \/ Return
    \/ \E p \in Procs :
         \/ CreateUpload(p)
         \/ AssociateContent(p) \/ AssocCheck(p) \/ AssocCreate(p)
         \/ MarkContentAsUploaded(p) \/ MarkDownload(p) \/ MarkStat(p)
         \/ MarkStatus(p) \/ MarkUpdate(p)

ExtSpec == Init /\ [][ExtNext]_vars

\* ------------------------------------------------- concurrent updates
\* two callers that create records and update them, with a clock that
\* lets two updates of one record be stamped
ValidCreateInputs == {in \in CreateInputs : ValidCreateInput(in)}

UpdateNext ==
    \/ Return
    \/ \E p \in Procs :
         \/ CreateContentWith(p, ValidCreateInputs) \/ CreateRepo(p)
         \/ CreateCleanup(p)
         \/ UpdateContent(p) \/ UpdateWriteWithin(p, MaxUpdateClock)

UpdateSpec == Init /\ [][UpdateNext]_vars

\* one caller working alone, with the wider inputs
Caller == "p1"

\* ------------------------------------------------- far pages
\* one caller that creates records and lists them by pages near and far:
\* the page and the page size come from the query string through
\* strconv.Atoi, any machine integer
FarListPages == {0, 1, 2, 3, 33, 65}
FarListPageSizes == {0, 1, 2, 4, 6}

FarListContent ==
    ListContentWith(Caller, {NoFilter}, FarListPages, FarListPageSizes)

PageNext ==
    \/ Return
    \/ CreateContentWith(Caller, ValidCreateInputs) \/ CreateRepo(Caller)
    \/ CreateCleanup(Caller)
    \/ DeleteContent(Caller) \/ DeleteRepo(Caller) \/ DeleteStorage(Caller)
    \/ FarListContent

PageSpec == Init /\ [][PageNext]_vars

SerialCreateContent == CreateContentWith(Caller, SerialCreateInputs)
SerialUpdateContent == UpdateContentWith(Caller, SerialUpdateFields)
SerialListContent ==
    ListContentWith(Caller, SerialListFilters, SerialListPages, SerialListPageSizes)

SerialNext ==
    \/ Return
    \/ SerialCreateContent \/ CreateRepo(Caller) \/ CreateCleanup(Caller)
    \/ GetContent(Caller)
    \/ GetContentData(Caller) \/ DataRetrieve(Caller)
    \/ GetContentURL(Caller) \/ URLStorage(Caller)
    \/ SerialListContent
    \/ SerialUpdateContent \/ UpdateWrite(Caller)
    \/ DeleteContent(Caller) \/ DeleteRepo(Caller) \/ DeleteStorage(Caller)

SerialSpec == Init /\ [][SerialNext]_vars

\* ==================================================================
\* Properties
\* ==================================================================

\* the create that returns in this state went: Store ok, repo.Create failed
CreateRepoFailed ==
    /\ ret.op = "create"
    /\ Len(ret.calls) >= 2
    /\ ret.calls[1].call = "storage.Store" /\ ret.calls[1].err = NoErr
    /\ ret.calls[2].call = "repo.Create" /\ ret.calls[2].err # NoErr

InvalidCreateInput(in) ==
    in.name = EmptyName \/ in.contentType = "" \/ in.data = NilData \/ in.size <= 0

\* C1: CreateContent with an empty name, an empty content type, a nil byte
\* stream or size <= 0 returns ErrInvalidInput, makes no capability call
\* (no Store, no repo.Create) and leaves repository and storage unchanged.
C1_InvalidCreateHasNoSideEffects ==
    /\ [](ret.op = "create" /\ InvalidCreateInput(ret.input)
            => ret.err = ErrInvalidInput /\ ret.calls = << >>)
    /\ [][ret'.op = "create" /\ InvalidCreateInput(ret'.input)
            => contents' = contents /\ storage' = storage]_vars

C1_Witness ==
    /\ ret.op = "create" /\ ret.input.size <= 0 /\ ret.err = ErrInvalidInput
    /\ DOMAIN contents # {} /\ DOMAIN storage # {}

\* C2: when repo.Create fails after a successful Store, CreateContent calls
\* storage.Delete on the path it just wrote and returns the repository
\* error; when that delete succeeds, fetching the key gives the storage
\* not-found error and the repository has no record for the new id.
C2_CompensatingDelete ==
    CreateRepoFailed =>
        /\ Len(ret.calls) = 3
        /\ ret.calls[3].call = "storage.Delete"
        /\ ret.calls[3].arg = ret.calls[1].arg
        /\ ret.err = ret.calls[2].err
        /\ ret.calls[3].err = NoErr =>
             /\ StorageRetrieve(storage, ret.key).err = StorageErrContentNotFound
             /\ RepoGetByID(contents, ret.id, FALSE).err = RepoErrContentNotFound
             /\ ret.id \notin DOMAIN contents

C2_Witness ==
    /\ CreateRepoFailed
    /\ Len(ret.calls) = 3 /\ ret.calls[3].err = NoErr
    /\ ret.key \notin DOMAIN storage
    /\ DOMAIN storage # {}

\* C3: when storage.Store fails, CreateContent makes no repo.Create call,
\* leaves the repository unchanged and returns exactly the storage error.
C3_StoreFailureStopsCreate ==
    /\ [](ret.op = "create" /\ Len(ret.calls) >= 1 /\ ret.calls[1].err # NoErr
            => /\ Len(ret.calls) = 1
               /\ ret.err = ret.calls[1].err
               /\ ret.id \notin DOMAIN contents)
    /\ [][ret'.op = "create" /\ Len(ret'.calls) >= 1 /\ ret'.calls[1].err # NoErr
            => contents' = contents]_vars

C3_Witness ==
    /\ ret.op = "create" /\ ret.err = StorageErrBackend
    /\ ret.calls = <<Call("storage.Store", ret.key, StorageErrBackend)>>
    /\ DOMAIN contents # {}

\* C4: when repo.Create and the compensating storage.Delete both fail, the
\* caller gets the repository error (not the cleanup error, not success),
\* the failed delete leaves storage as it was, so the blob stays, and no
\* record exists for the id.
C4_DualFailureReturnsRepoError ==
    /\ [](CreateRepoFailed /\ Len(ret.calls) = 3 /\ ret.calls[3].err # NoErr
            => /\ ret.err = ret.calls[2].err
               /\ ret.err # NoErr
               /\ ret.err # ret.calls[3].err
               /\ ret.id \notin DOMAIN contents)
    /\ [][(ret'.op = "create" /\ Len(ret'.calls) = 3 /\ ret'.calls[3].err # NoErr)
            => storage' = storage]_vars

C4_Witness ==
    /\ CreateRepoFailed /\ Len(ret.calls) = 3
    /\ ret.calls[3].err = StorageErrBackend
    /\ ret.err = RepoErrBackend
    /\ ret.key \in DOMAIN storage /\ storage[ret.key] = ret.input.data
    /\ ret.id \notin DOMAIN contents

\* C5: in every reachable state each record in the repository has a path
\* whose storage write, made by the create of that very id, had completed
\* successfully when the record was written.
C5_RecordImpliesBytesWritten ==
    \A id \in DOMAIN contents : <<id, contents[id].path>> \in written

C5_Witness ==
    /\ \E id \in DOMAIN contents : <<id, contents[id].path>> \in written
    /\ \E p \in Procs : pc[p] = "create_cleanup"

C6_WitnessList ==
    /\ ret.op = "list" /\ ret.err = NoErr /\ ret.filter = NoFilter
    /\ deletedOk # {} /\ ret.totalCount = 1 /\ Len(ret.items) = 1
    /\ Cardinality(DOMAIN contents) = 2

\* C7: DeleteContent returns nil whenever repo.Delete succeeded; it then
\* attempts the storage delete and never returns that delete's error.
C7_DeleteIgnoresStorageError ==
    (/\ ret.op = "delete"
     /\ Len(ret.calls) >= 2
     /\ ret.calls[2].call = "repo.Delete" /\ ret.calls[2].err = NoErr)
        => /\ ret.err = NoErr
           /\ Len(ret.calls) = 3
           /\ ret.calls[3].call = "storage.Delete"
           /\ ret.calls[3].arg = contents[ret.id].path

C7_Witness ==
    /\ ret.op = "delete" /\ Len(ret.calls) = 3
    /\ ret.calls[3].err = StorageErrBackend
    /\ ret.err = NoErr
    /\ contents[ret.id].deletedAt # NoTime

\* C8: no UpdateContent returns success when its repo.Update is applied to
\* a record that is absent or already soft-deleted, and no step changes any
\* field of a soft-deleted record: repo.Update checks DeletedAt and writes
\* in the same atomic step.
C8_NoUpdateOfDeletedRecord ==
    /\ [](ret.op = "update" /\ Len(ret.calls) = 2 /\ ret.gone
            => ret.err # NoErr /\ contents[ret.id].deletedAt # NoTime)
    /\ [][\A id \in DOMAIN contents :
            contents[id].deletedAt # NoTime
               => id \in DOMAIN contents' /\ contents'[id] = contents[id]]_vars

\* an UpdateContent whose lookup succeeded and whose write came after a
\* concurrent DeleteContent had soft-deleted the record
C8_Witness ==
    /\ ret.op = "update" /\ Len(ret.calls) = 2 /\ ret.gone
    /\ ret.calls[1].err = NoErr
    /\ ret.calls[2].err = RepoErrContentNotFound
    /\ contents[ret.id] = [ret.read EXCEPT !.deletedAt = contents[ret.id].deletedAt]

\* C9: an UpdateContent or DeleteContent whose lookup succeeded and whose
\* repository write finds the record already soft-deleted returns the
\* service's ErrContentNotFound.
C9_RaceLoserSeesServiceNotFound ==
    (/\ ret.op \in {"update", "delete"}
     /\ Len(ret.calls) = 2
     /\ ret.gone
     /\ ret.calls[2].err # RepoErrBackend)
        => ret.err = ErrContentNotFound

\* C10: an UpdateContent that supplies only a description returns and
\* stores the record it read with the description replaced and UpdatedAt
\* set, every other field (name, metadata, id, path, size, content type,
\* CreatedAt, DeletedAt) as read; a lookup right after returns that record.
C10_DescriptionOnlyUpdate ==
    (/\ ret.op = "update" /\ ret.err = NoErr
     /\ ret.input.name = EmptyName /\ ret.input.metadata.isNil
     /\ ret.input.description # "")
        => /\ ret.content.name = ret.read.name
           /\ ret.content.metadata = ret.read.metadata
           /\ ret.content = [ret.read EXCEPT !.description = ret.input.description,
                                             !.updatedAt = ret.content.updatedAt]
           /\ ret.content.updatedAt >= ret.read.updatedAt
           /\ RepoGetByID(contents, ret.id, FALSE) =
                 [err |-> NoErr, content |-> <<ret.content>>]

C10_Witness ==
    /\ ret.op = "update" /\ ret.err = NoErr
    /\ ret.input.name = EmptyName /\ ret.input.metadata.isNil
    /\ ret.input.description = "d1" /\ ret.read.description = "d0"
    /\ contents[ret.id].description = "d1"
    /\ contents[ret.id].name = <<"a">> /\ contents[ret.id].metadata = Meta1
    /\ contents[ret.id].updatedAt > contents[ret.id].createdAt

\* C11: an UpdateContent that succeeds changes name, description and
\* metadata only where the caller supplied a non-empty value: an empty name,
\* an empty description and a metadata map without entries each leave the
\* field as it was read, so no update clears a field.
C11_EmptyValueLeavesField ==
    ret.op = "update" /\ ret.err = NoErr
        => /\ ret.input.name = EmptyName => ret.content.name = ret.read.name
           /\ ret.input.description = ""
                 => ret.content.description = ret.read.description
           /\ ret.input.metadata.kv = {}
                 => /\ ret.content.metadata = ret.read.metadata
                    /\ contents[ret.id].metadata = ret.read.metadata

\* the identifiers of the records a list call with filter f counts
ListedIds(f) == {id \in DOMAIN contents : Matches(contents[id], f)}

\* page q of size P as the repository may answer an independent call for
\* it, visiting its map in the given order
PageOf(f, q, P, order) ==
    RepoList(contents, f, Offset(q, P), P, order, FALSE).items

\* C12: when a ListContent call has returned page 1 of size P, then however
\* the repository answers the independent calls for pages 2..ceil(N/P) on
\* the same, unwritten repository, every one of the N identifiers occurs
\* exactly once in the pages taken together: none twice, none left out.
C12_PagesPartitionTheRecords ==
    ret.op = "list" /\ ret.err = NoErr /\ ret.page = 1
        => LET ids == ListedIds(ret.filter)
               P == ret.pageSize
               np == ret.totalPages
           IN \A answer \in [2..np -> Orders(ids)] :
                LET pageAt(q) == IF q = 1 THEN ret.items
                                 ELSE PageOf(ret.filter, q, P, answer[q])
                    places(id) == {qi \in {<<q, i>> : q \in 1..np, i \in 1..P} :
                                     /\ qi[2] \in DOMAIN pageAt(qi[1])
                                     /\ pageAt(qi[1])[qi[2]].id = id}
                IN \A id \in ids : Cardinality(places(id)) = 1

\* C13: a ListContent call returns what every identical call on the same,
\* unwritten repository returns, the same items in the same order, and its
\* items are in descending order of creation time, equal times in order of
\* identifier.
C13_StableOrderByCreation ==
    ret.op = "list" /\ ret.err = NoErr
        => /\ \A order \in Orders(ListedIds(ret.filter)) :
                RepoList(contents, ret.filter, ret.calls[1].arg.offset,
                         ret.calls[1].arg.limit, order, FALSE).items = ret.items
           /\ \A i, j \in DOMAIN ret.items :
                i < j => \/ ret.items[i].createdAt > ret.items[j].createdAt
                         \/ /\ ret.items[i].createdAt = ret.items[j].createdAt
                            /\ ret.items[i].id < ret.items[j].id

\* the supplied predicates of filter f, one by one, on a record
HasContentType(c, f) == f.contentType = "" \/ c.contentType = f.contentType
AtLeastMinSize(c, f) == f.minSize = << >> \/ ~(c.size < f.minSize[1])
AtMostMaxSize(c, f) == f.maxSize = << >> \/ ~(c.size > f.maxSize[1])
NotBeforeFrom(c, f) == f.createdFrom = << >> \/ ~(c.createdAt < f.createdFrom[1])
NotAfterTo(c, f) == f.createdTo = << >> \/ ~(c.createdAt > f.createdTo[1])
HasMetadata(c, f) ==
    \A k \in {e[1] : e \in f.metadata} :
        \E e \in c.metadata.kv : e[1] = k /\ <<k, e[2]>> \in f.metadata

\* C14: every record a ListContent call returns is a live record of the
\* repository that satisfies each predicate the filter supplies (content
\* type equal, size within the inclusive bounds, creation time within the
\* inclusive bounds, every metadata entry equal), and totalCount is the
\* number of live records that satisfy them all.
C14_FiltersAreConjoined ==
    ret.op = "list" /\ ret.err = NoErr
        => LET f == ret.filter
               all(c) == /\ HasContentType(c, f) /\ AtLeastMinSize(c, f)
                         /\ AtMostMaxSize(c, f) /\ NotBeforeFrom(c, f)
                         /\ NotAfterTo(c, f) /\ HasMetadata(c, f)
           IN /\ \A i \in DOMAIN ret.items :
                   LET c == ret.items[i]
                   IN /\ c.id \in DOMAIN contents /\ contents[c.id] = c
                      /\ c.deletedAt = NoTime
                      /\ all(c)
              /\ ret.totalCount =
                   Cardinality({id \in DOMAIN contents :
                                  contents[id].deletedAt = NoTime /\ all(contents[id])})

\* two live records, one of them with the content type and the size at the
\* inclusive minimum the filter asks for, the other with neither
C14_Witness ==
    /\ ret.op = "list" /\ ret.err = NoErr
    /\ ret.filter.contentType = "image/png" /\ ret.filter.minSize = <<2>>
    /\ ret.totalCount = 1 /\ Len(ret.items) = 1
    /\ ret.items[1].size = 2
    /\ Cardinality({id \in DOMAIN contents : contents[id].deletedAt = NoTime}) = 2

\* a record that has the content type asked for and not the minimum size
C14_WitnessOneOfTwo ==
    /\ ret.op = "list" /\ ret.err = NoErr
    /\ ret.filter.contentType = "text/plain" /\ ret.filter.minSize = <<2>>
    /\ ret.totalCount = 0
    /\ \E id \in DOMAIN contents :
         contents[id].deletedAt = NoTime /\ contents[id].contentType = "text/plain"

\* C15: a ListContent call that succeeds echoes page 1 for a page <= 0 and
\* the page given otherwise, page size 20 for a page size <= 0 and the size
\* given otherwise; its one repository call, made also when that call
\* fails, has offset (page - 1) * pageSize and limit pageSize of these
\* effective values, and the items are those from the offset on, at most
\* a page of them.
C15_DefaultsAndOffset ==
    ret.op = "list"
        => LET page == IF ret.input.page >= 1 THEN ret.input.page ELSE 1
               pageSize == IF ret.input.pageSize >= 1 THEN ret.input.pageSize ELSE 20
               skipped == (page - 1) * pageSize
           IN /\ Len(ret.calls) = 1
              /\ ret.calls[1].call = "repo.List"
              /\ ret.calls[1].arg = [offset |-> skipped, limit |-> pageSize]
              /\ ret.err = NoErr
                   => /\ ret.page = page /\ ret.pageSize = pageSize
                      /\ Len(ret.items) =
                           IF ret.totalCount <= skipped THEN 0
                           ELSE IF ret.totalCount - skipped < pageSize
                                THEN ret.totalCount - skipped
                                ELSE pageSize

\* no page and no page size given, answered as page 1 of size 20
C15_Witness ==
    /\ ret.op = "list" /\ ret.err = NoErr
    /\ ret.input = [page |-> 0, pageSize |-> 0]
    /\ ret.page = 1 /\ ret.pageSize = 20
    /\ ret.calls[1].arg = [offset |-> 0, limit |-> 20]
    /\ Len(ret.items) = 2

\* the second page of size 1 of two records: offset 1, one item
C15_WitnessSecondPage ==
    /\ ret.op = "list" /\ ret.err = NoErr
    /\ ret.input = [page |-> 2, pageSize |-> 1]
    /\ ret.calls[1].arg = [offset |-> 1, limit |-> 1]
    /\ ret.totalCount = 2 /\ Len(ret.items) = 1

\* C16: a ListContent call that succeeds returns the least number of pages
\* of the effective size that hold totalCount records: no page for no
\* record, and otherwise totalPages pages hold them all while one page
\* fewer does not.
C16_TotalPagesIsCeiling ==
    ret.op = "list" /\ ret.err = NoErr
        => /\ ret.pageSize >= 1 /\ ret.totalCount >= 0
           /\ ret.totalPages >= 0
           /\ ret.totalPages * ret.pageSize >= ret.totalCount
           /\ ret.totalPages > 0
                 => (ret.totalPages - 1) * ret.pageSize < ret.totalCount
           /\ ret.totalCount = 0 => ret.totalPages = 0

\* one record in pages of two: one page, partly filled
C16_Witness ==
    /\ ret.op = "list" /\ ret.err = NoErr
    /\ ret.totalCount = 1 /\ ret.pageSize = 2 /\ ret.totalPages = 1

\* two records in pages of one: two full pages
C16_WitnessFullPages ==
    /\ ret.op = "list" /\ ret.err = NoErr
    /\ ret.totalCount = 2 /\ ret.pageSize = 1 /\ ret.totalPages = 2

\* no record: no page
C16_WitnessEmpty ==
    /\ ret.op = "list" /\ ret.err = NoErr
    /\ ret.totalCount = 0 /\ ret.totalPages = 0 /\ DOMAIN contents # {}

C18_MissingBytesGiveStorageError ==
    ret.op = "data"
        => /\ (Len(ret.calls) = 2 /\ ret.calls[2].arg \notin DOMAIN storage)
                => /\ ret.calls[2].call = "storage.Retrieve"
                   /\ ret.calls[2].arg = contents[ret.id].path
                   /\ ret.err = ret.calls[2].err
                   /\ ret.err \in {StorageErrContentNotFound, StorageErrBackend}
                   /\ ret.err # NoErr /\ ret.err # ErrContentNotFound
                   /\ ret.data = NilData /\ ret.content = << >>
           /\ ret.content # << >> => ret.err = NoErr /\ ret.data # NilData

\* a live record whose bytes are gone, asked for its data
C18_Witness ==
    /\ ret.op = "data" /\ Len(ret.calls) = 2
    /\ contents[ret.id].deletedAt = NoTime
    /\ contents[ret.id].path \notin DOMAIN storage
    /\ ret.err = StorageErrContentNotFound

C19_WitnessDeleted ==
    /\ ret.op = "url" /\ ret.err = ErrContentNotFound /\ Len(ret.calls) = 1
    /\ ret.id \in DOMAIN contents
    /\ contents[ret.id].path \in DOMAIN storage

\* C20: UpdateContent with uuid.Nil returns ErrInvalidInput without any
\* repository or storage call, and repository and storage stay as they
\* were.
C20_NilIdUpdateIsInvalidInput ==
    /\ [](ret.op = "update" /\ ret.id = NilID
            => ret.err = ErrInvalidInput /\ ret.calls = << >>)
    /\ [][ret'.op = "update" /\ ret'.id = NilID
            => contents' = contents /\ storage' = storage]_vars

C20_Witness ==
    /\ ret.op = "update" /\ ret.id = NilID /\ ret.err = ErrInvalidInput
    /\ ret.input.description # ""
    /\ DOMAIN contents # {} /\ DOMAIN storage # {}

C22_IdAndPathAreImmutable ==
    /\ [](/\ \A id \in DOMAIN contents : contents[id].id = id
          /\ ret.op = "update" /\ ret.err = NoErr
               => ret.content.id = ret.id /\ ret.content.path = ret.read.path)
    /\ [][\A id \in DOMAIN contents :
            /\ id \in DOMAIN contents'
            /\ contents'[id].id = contents[id].id
            /\ contents'[id].path = contents[id].path]_vars

\* a record renamed by an update, its path still the one derived from the
\* name it was created with
C22_Witness ==
    /\ ret.op = "update" /\ ret.err = NoErr
    /\ contents[ret.id].name = <<"n">>
    /\ contents[ret.id].path = StorageKey(ret.id, <<"a">>)

\* C23: the storage key a CreateContent call has written its bytes under
\* differs from the storage path of every record another CreateContent
\* call has created, so the write replaced no other record's bytes.
C23_StorageKeysDoNotCollide ==
    (ret.op = "create" /\ ret.calls # << >> /\ ret.calls[1].err = NoErr)
        => \A id \in DOMAIN contents :
             id # ret.id => contents[id].path # ret.key

\* C24: a CreateContent that succeeds returns a record under an identifier
\* the repository held no record for, live or soft-deleted, stores it
\* there and leaves every record the repository held as it was.
C24_CreateUsesFreshIdentifier ==
    [][ret'.op = "create" /\ ret'.err = NoErr
         => /\ ret'.id \notin DOMAIN contents
            /\ ret'.content.id = ret'.id
            /\ contents'[ret'.id] = ret'.content
            /\ \A id \in DOMAIN contents :
                 id \in DOMAIN contents' /\ contents'[id] = contents[id]]_vars

\* a create that succeeds while the repository holds a soft-deleted record
C24_Witness ==
    /\ ret.op = "create" /\ ret.err = NoErr
    /\ \E id \in DOMAIN contents : id # ret.id /\ contents[id].deletedAt # NoTime

\* C29: in a DeleteContent the storage delete is the third call, made
\* after a lookup and a repo.Delete that both succeeded; when the lookup
\* or repo.Delete fails its error is what is returned and no storage
\* delete is made; and a caller about to make, or having made, the storage
\* delete finds its record soft-deleted.
C29_StorageDeleteFollowsRepoDelete ==
    /\ ret.op = "delete"
         => /\ \A i \in DOMAIN ret.calls :
                 ret.calls[i].call = "storage.Delete"
                    => /\ i = 3
                       /\ ret.calls[1] = Call("repo.GetByID", ret.id, NoErr)
                       /\ ret.calls[2] = Call("repo.Delete", ret.id, NoErr)
                       /\ contents[ret.id].deletedAt # NoTime
            /\ Len(ret.calls) < 3
                 => /\ ret.calls[Len(ret.calls)].err # NoErr
                    /\ ret.err # NoErr
                    /\ ret.err \in {ret.calls[Len(ret.calls)].err, ErrContentNotFound}
    /\ \A p \in Procs :
         pc[p] = "delete_storage"
            => /\ contents[loc[p].id].deletedAt # NoTime
               /\ Len(loc[p].calls) = 2 /\ loc[p].calls[2].err = NoErr

\* a repo.Delete that fails in the backend: the error returned, the record
\* live and its bytes stored
C29_Witness ==
    /\ ret.op = "delete" /\ Len(ret.calls) = 2
    /\ ret.calls[2].err = RepoErrBackend /\ ret.err = RepoErrBackend
    /\ contents[ret.id].deletedAt = NoTime
    /\ contents[ret.id].path \in DOMAIN storage

\* the outcomes of a CreateContent, told apart by the calls it made
CreateRejected ==
    ret.calls = << >> /\ ret.err = ErrInvalidInput
CreateStoreFailed ==
    /\ Len(ret.calls) = 1
    /\ ret.calls[1].call = "storage.Store" /\ ret.calls[1].err # NoErr
    /\ ret.err = ret.calls[1].err
CreateCommitted ==
    /\ Len(ret.calls) = 2
    /\ ret.calls[1] = Call("storage.Store", ret.key, NoErr)
    /\ ret.calls[2] = Call("repo.Create", ret.id, NoErr)
    /\ ret.err = NoErr /\ contents[ret.id] = ret.content
CreateCompensated ==
    /\ CreateRepoFailed /\ Len(ret.calls) = 3
    /\ ret.calls[3] = Call("storage.Delete", ret.key, NoErr)
    /\ ret.err = ret.calls[2].err
    /\ ret.key \notin DOMAIN storage /\ ret.id \notin DOMAIN contents
CreateDrift ==
    /\ CreateRepoFailed /\ Len(ret.calls) = 3
    /\ ret.calls[3].call = "storage.Delete" /\ ret.calls[3].arg = ret.key
    /\ ret.calls[3].err # NoErr
    /\ ret.err = ret.calls[2].err
    /\ ret.id \notin DOMAIN contents

\* C30: a CreateContent that returns has made its calls in the order
\* Store, repo.Create, storage.Delete and ends in exactly one of: rejected
\* as invalid input, storage write failed, committed, compensated, drift;
\* and a caller that is about to make the compensating delete can always
\* make it and return, whatever the delete answers.
C30_CreateEndsInOneOutcome ==
    /\ ret.op = "create"
         => Cardinality({o \in {"rejected", "storeFailed", "committed",
                                "compensated", "drift"} :
                           \/ o = "rejected" /\ CreateRejected
                           \/ o = "storeFailed" /\ CreateStoreFailed
                           \/ o = "committed" /\ CreateCommitted
                           \/ o = "compensated" /\ CreateCompensated
                           \/ o = "drift" /\ CreateDrift}) = 1
    /\ \A p \in Procs :
         /\ pc[p] = "create_repo"
              => Len(loc[p].calls) = 1 /\ loc[p].calls[1].err = NoErr
         /\ pc[p] = "create_cleanup"
              => /\ Len(loc[p].calls) = 2 /\ loc[p].calls[2].err # NoErr
                 /\ ret = NoResult => ENABLED CreateCleanup(p)

\* a create that ends in drift, the blob left in storage
C30_Witness ==
    /\ ret.op = "create" /\ CreateDrift
    /\ ret.key \in DOMAIN storage


\* ------------------------------------------------- C25
\* the moves of a status the lifecycle allows: created to uploaded to done,
\* into error from a state that is not final, and none out of error
StatusMayMove(from, to) ==
    \/ from = to
    \/ from = StatusCreated /\ to \in {StatusUploaded, StatusError}
    \/ from = StatusUploaded /\ to \in {StatusDone, StatusError}

\* C25: the status of a record only moves created -> uploaded -> done or into
\* error, and once it is error no operation, MarkContentAsUploaded
\* included, changes it
C25_StatusMovesForwardOnly ==
    [][\A id \in DOMAIN contents :
         id \in DOMAIN contents' /\
         StatusMayMove(contents[id].status, contents'[id].status)]_vars


\* ------------------------------------------------- C26
\* the repository holds an association with the link of the input
Associated(in) == \E i \in DOMAIN assocs : SameLink(assocs[i], in)

\* C26: when AssociateContent looks for an association of a triple that is
\* already associated, the call ends there with an error, the conflict
\* error whenever the lookup answers, and the associations are left as
\* they were: none added, the existing one not modified
C26_DuplicateAssociationIsRejected ==
    [][\A p \in Procs :
         (pc[p] = "assoc_check" /\ pc'[p] # "assoc_check" /\ Associated(loc[p].input))
         => /\ pc'[p] = "idle"
            /\ assocs' = assocs
            /\ ret'.op = "associate" /\ ret'.err # NoErr
            /\ ret'.calls[2].err = NoErr => ret'.err = ErrAlreadyAssociated]_vars

\* a call for an associated triple returned the conflict error after the
\* lookup, with the association still the only one
C26_Witness ==
    /\ ret.op = "associate" /\ ret.err = ErrAlreadyAssociated
    /\ Len(ret.calls) = 2 /\ ret.calls[2].err = NoErr
    /\ Len(assocs) = 1 /\ SameLink(assocs[1], ret.input)

\* ------------------------------------------------- C27
\* C27: at most one association exists for a (content id, entity type,
\* entity id) triple, under any interleaving of AssociateContent calls
C27_OneAssociationPerLink ==
    \A i, j \in DOMAIN assocs : SameLink(assocs[i], assocs[j]) => i = j

\* two callers passed the check for the same triple and the second create
\* was refused as a conflict
C27_Witness ==
    /\ ret.op = "associate" /\ Len(ret.calls) = 3
    /\ ret.calls[2].err = RepoErrNotFound
    /\ ret.calls[3].err = RepoErrConflict
    /\ ret.err = Wrap("failed to create association", RepoErrConflict)
    /\ Len(assocs) = 1 /\ SameLink(assocs[1], ret.input)


\* ------------------------------------------------- C28
\* a call that failed; a lookup of an association that finds none is an
\* answer, not a failure
CallFailed(c) ==
    /\ c.err # NoErr
    /\ ~(c.call = "repo.GetAssociationByLink" /\ c.err = RepoErrNotFound)

\* the two cleanup calls whose failure is left unreported: the compensating
\* storage delete of CreateContent and the storage delete of DeleteContent
BestEffortCall(op, c) ==
    c.call = "storage.Delete" /\ op \in {"create", "delete"}

\* C28: an operation in which a storage or repository call failed returns
\* an error, the two cleanup deletes excepted
C28_CallFailuresAreReturned ==
    ret # NoResult =>
        \A i \in DOMAIN ret.calls :
            (CallFailed(ret.calls[i]) /\ ~BestEffortCall(ret.op, ret.calls[i]))
            => ret.err # NoErr

\* ------------------------------------------------- C31
\* the repository holds no live record for id: absent, or soft-deleted
Gone(id) == id \notin DOMAIN contents \/ contents[id].deletedAt # NoTime

TombstoneHidesDataAndURL ==
    /\ (ret.op = "data" /\ Gone(ret.id))
          => ret.err # NoErr /\ ret.data = NilData /\ ret.content = << >>
    /\ (ret.op = "url" /\ Gone(ret.id))
          => ret.err # NoErr /\ ret.url = ""

\* ------------------------------------------------- C33
\* no service operation is in progress
Quiescent == \A p \in Procs : pc[p] = "idle"

\* the storage paths of the live records
LivePaths == {contents[id].path : id \in {i \in DOMAIN contents : ~Gone(i)}}

\* C33: as long as no storage delete has failed, in every state with no
\* operation in progress the keys in storage are exactly the storage paths
\* of the live records
C33_StorageMatchesLiveRecords ==
    (Quiescent /\ ~deleteFailed) => DOMAIN storage = LivePaths

\* ------------------------------------------------- C34
\* C34: of two concurrent UpdateContent calls on one id that both succeed,
\* one supplying only a name and the other only a description, neither
\* takes back the other's field: an update that supplied no name leaves
\* the stored name as the step before it had it, and one that supplied no
\* description leaves the stored description
C34_ConcurrentUpdatesKeepBothFields ==
    [][\A p \in Procs :
         (pc[p] = "update_write" /\ pc'[p] = "idle" /\ ret'.err = NoErr)
         => LET id == loc[p].id
            IN /\ loc[p].input.name = EmptyName
                    => contents'[id].name = contents[id].name
               /\ loc[p].input.description = ""
                    => contents'[id].description = contents[id].description]_vars

\* ------------------------------------------------- C35
\* the operation the step of the caller belongs to
StepOp ==
    IF pc[Caller] # "idle" THEN loc[Caller].op
    ELSE IF pc'[Caller] # "idle" THEN loc'[Caller].op
    ELSE ret'.op

\* C35: no step of UpdateContent, GetContent, GetContentData, GetContentURL
\* or ListContent changes storage, no step of the four reads changes the
\* repository, and a step that changes the set of stored keys belongs to
\* CreateContent or DeleteContent
C35_ReadsAndUpdatesLeaveStorage ==
    [][/\ StepOp \in {"update", "get", "data", "url", "list"} => storage' = storage
       /\ StepOp \in {"get", "data", "url", "list"} => contents' = contents
       /\ DOMAIN storage' # DOMAIN storage => StepOp \in {"create", "delete"}]_vars

\* an UpdateContent that changed the record returned with the bytes of the
\* record in storage as the create had written them
C35_Witness ==
    /\ ret.op = "update" /\ ret.err = NoErr
    /\ contents[ret.id] # ret.read
    /\ contents[ret.id].path \in DOMAIN storage
    /\ storage[contents[ret.id].path] = "x"

\* ------------------------------------------------- C36
\* C36: whatever the page and the page size, a ListContent call that the
\* repository answers returns a result: at most pageSize items, each a
\* live record that matches the filter, totalCount the number of such
\* records whatever the page, and no items for a page whose offset
\* (page - 1) * pageSize is at or beyond totalCount
C36_EveryPageIsAnswered ==
    (ret.op = "list" /\ ret.calls[1].err # RepoErrBackend)
        => /\ ret.err = NoErr
           /\ Len(ret.items) <= ret.pageSize
           /\ \A i \in DOMAIN ret.items :
                /\ ret.items[i].id \in ListedIds(ret.filter)
                /\ contents[ret.items[i].id] = ret.items[i]
           /\ ret.totalCount = Cardinality(ListedIds(ret.filter))
           /\ (ret.page - 1) * ret.pageSize >= ret.totalCount => ret.items = << >>

\* ------------------------------------------------- C37
\* a MarkContentAsUploaded that read a record in status uploaded or done
\* goes no further than its lookup and returns the cannot-mark error
MarkRefusedWhenUploaded ==
    /\ StatusRefused(StatusUploaded) /\ StatusRefused(StatusDone)
    /\ \A p \in Procs :
         pc[p] \in {"mark_download", "mark_stat"}
            => loc[p].content.status \notin {StatusUploaded, StatusDone}
    /\ (ret.op = "mark" /\ Len(ret.calls) = 1 /\ ret.calls[1].err = NoErr)
          => ret.err = ErrCannotMark /\ ret.content = << >>

\* a MarkContentAsUploaded that returns success has stored status uploaded
MarkSuccessIsUploaded ==
    (ret.op = "mark" /\ ret.err = NoErr)
        => /\ contents[ret.id].status = StatusUploaded
           /\ ret.content = <<contents[ret.id]>>

\* a MarkContentAsUploaded whose storage.StatObject failed returns an
\* error and has stored status error
MarkStatFailureIsError ==
    (/\ ret.op = "mark"
     /\ \E i \in DOMAIN ret.calls :
          ret.calls[i].call = "storage.StatObject" /\ ret.calls[i].err # NoErr)
        => /\ ret.err # NoErr
           /\ contents[ret.id].status = StatusError

\* C37: MarkContentAsUploaded of a record in status uploaded or done
\* returns an error and leaves the record unchanged; a success stores
\* status uploaded; a failed storage.StatObject stores status error and
\* returns an error
C37_MarkOutcomes ==
    /\ MarkRefusedWhenUploaded
    /\ MarkSuccessIsUploaded
    /\ MarkStatFailureIsError

\* ------------------------------------------------- C38
\* keys and bytes the capability is tried with: the keys it holds and one
\* it never holds
ProbeKeys == DOMAIN storage \cup {<<"0", "a">>}
ProbeData == {"x", "y"}

\* a store, a delete or a fetch of key k2 leaves what key k holds
OtherKeyKept(st, st2, k) ==
    (k \in DOMAIN st) = (k \in DOMAIN st2) /\ (k \in DOMAIN st => st2[k] = st[k])

\* C38: in every storage the service brings about, a store that succeeds
\* makes a fetch of the key return the bytes stored, and a store or delete
\* of another key leaves them; after a delete that succeeds a fetch, a
\* delete and a signed URL of the key answer the storage not-found error;
\* a delete, a fetch or a signed URL of an absent key answers not-found
\* and the delete leaves every key as it was
C38_MemoryStorageLaws ==
    \A key \in ProbeKeys :
        /\ \A data \in ProbeData :
             LET s == StorageStore(storage, key, data, FALSE)
             IN /\ s.err = NoErr /\ s.path = key
                /\ StorageRetrieve(s.storage, key) = [err |-> NoErr, data |-> data]
                /\ \A k \in ProbeKeys \ {key} : OtherKeyKept(storage, s.storage, k)
        /\ key \in DOMAIN storage =>
             LET d == StorageDelete(storage, key, FALSE)
             IN /\ d.err = NoErr
                /\ StorageRetrieve(d.storage, key).err = StorageErrContentNotFound
                /\ StorageDelete(d.storage, key, FALSE) =
                      [err |-> StorageErrContentNotFound, storage |-> d.storage]
                /\ \A e \in Expiries :
                     StorageGetURL(d.storage, key, e, FALSE).err = StorageErrContentNotFound
                /\ \A k \in ProbeKeys \ {key} : OtherKeyKept(storage, d.storage, k)
        /\ key \notin DOMAIN storage =>
             /\ StorageDelete(storage, key, FALSE) =
                   [err |-> StorageErrContentNotFound, storage |-> storage]
             /\ StorageRetrieve(storage, key).err = StorageErrContentNotFound
             /\ \A e \in Expiries :
                  StorageGetURL(storage, key, e, FALSE).err = StorageErrContentNotFound

\* a DeleteContent whose storage delete succeeded on one key while the
\* bytes of another record stay stored, and a fetch of the deleted key
\* answers not-found
C38_Witness ==
    /\ ret.op = "delete" /\ Len(ret.calls) = 3 /\ ret.calls[3].err = NoErr
    /\ ret.calls[3].arg \notin DOMAIN storage
    /\ \E k \in DOMAIN storage : storage[k] = "y"
    /\ StorageRetrieve(storage, ret.calls[3].arg).err = StorageErrContentNotFound

====
